---- MODULE Spec2Model ----
(***************************************************************************)
(* Allocation-and-scheduling engine of the AI Study Planner (src/app.py).  *)
(*                                                                         *)
(* Hours are exact fixed-point numbers: a value h of the program is the    *)
(* integer h * scale, where scale is the number of model units per hour.   *)
(* The program's tolerance 1e-6 h is scale / 1000000 units; for an integer *)
(* x, "x > scale/1000000" is "x > scale \div 1000000", so Eps below is     *)
(* exact.  Priority boosts are kept in tenths (10 is the slider's 1.0).    *)
(* Floating-point rounding is not modelled.                                *)
(*                                                                         *)
(* Three specifications share the actions:                                 *)
(*   Spec       the main workflow: parse, boost, allocate, sort, pack      *)
(*   SpecUnit   build_day_alloc / rebalance_tasks called on any task list  *)
(*   SpecParse  the topic parser on any topic entry                        *)
(***************************************************************************)
EXTENDS Integers, Sequences, FiniteSets, TLC

VARIABLES
  subjects_input,    \* topic entries still as typed: [subject, name, paren, declared]
  auto_detect,       \* checkbox "Auto-detect difficulty"
  tasks,             \* [id, subject, topic, diff, base_w, boost, hrs]; id is a ghost field
  subject_boosts,    \* subject -> boost in tenths
  scheduled_tasks,   \* the list handed to the packers
  days,              \* use_days
  daily_hours,       \* use_daily_hours, in units
  scale,             \* units per hour
  pc,                \* position in the workflow / in the running function
  fn,                \* "", "build_day_alloc" or "rebalance_tasks": the packer last called
  plan,              \* day -> sequence of chunks [id, subject, topic, diff, hrs]
  day_alloc,         \* per-day totals returned by the packer
  day_index,         \* build_day_alloc: 0-based index of the current day
  remaining_in_day,  \* build_day_alloc: capacity left in the current day
  i,                 \* build_day_alloc: 1-based position of the for loop
  remain,            \* build_day_alloc: hours of the current task not yet placed
  flat,              \* rebalance_tasks: [id, subject, topic, diff, weight, hrs], sorted
  day_buckets,       \* rebalance_tasks: per-day chunk lists
  day_loads,         \* rebalance_tasks: per-day totals
  j,                 \* rebalance_tasks: 1-based position of the for loop
  remaining,         \* rebalance_tasks: hours of the current item not yet placed
  overloaded_days,   \* sequence of <<day, hours>> computed by the smart alerts
  autobalance        \* TRUE once the "Auto-balance schedule" branch was taken

vars == <<subjects_input, auto_detect, tasks, subject_boosts, scheduled_tasks,
          days, daily_hours, scale, pc, fn, plan, day_alloc, day_index,
          remaining_in_day, i, remain, flat, day_buckets, day_loads, j,
          remaining, overloaded_days, autobalance>>

-----------------------------------------------------------------------------
(* Bounds of the model *)

MaxTasks == 2          \* SpecUnit: tasks per direct call
MaxDays == 3           \* SpecUnit: days
MaxHrs == 3            \* SpecUnit: hours of a task, in units
MaxDailyHours == 3     \* SpecUnit: daily_hours, in units
MaxEntries == 2        \* Spec: topic entries typed
MaxUseDays == 3        \* Spec: "Days left for exam"
MaxParseEntries == 1   \* SpecParse: topic entries typed
MaxZeroChunks == 1     \* zero-hour chunks recorded in plan before the model stops recording them

(* Program constants *)

EpsInv == 1000000      \* 1 / 1e-6, the tolerance of both packers

Eps == scale \div EpsInv

Min(a, b) == IF a <= b THEN a ELSE b

RECURSIVE SumSeq(_)
SumSeq(s) == IF s = <<>> THEN 0 ELSE Head(s) + SumSeq(Tail(s))

-----------------------------------------------------------------------------
(* Difficulty classifier, src/app.py:40-53 *)

hard_kw == {"neural", "deep", "derivative", "proof", "theorem", "optimization",
            "matrix", "bayes", "differential", "gradient", "regression",
            "entropy", "convergence"}
easy_kw == {"basics", "intro", "introduction", "foundation", "overview",
            "getting started", "simple"}
medium_kw == {"application", "concept", "practice", "example", "intermediate"}

\* topic.lower(), word by word, over the vocabulary of the model
Lower(w) ==
  CASE w = "Algebra" -> "algebra"
    [] w = "Linear" -> "linear"
    [] w = "Neural" -> "neural"
    [] w = "Networks" -> "networks"
    [] w = "Deep" -> "deep"
    [] w = "Basics" -> "basics"
    [] w = "Getting" -> "getting"
    [] w = "Started" -> "started"
    [] w = "Practice" -> "practice"
    [] w = "Introduction" -> "introduction"
    [] w = "Proofs" -> "proofs"
    [] w = "Calculus" -> "calculus"
    [] OTHER -> w

LowerTopic(topic) == [n \in 1..Len(topic) |-> Lower(topic[n])]

\* proper substrings among the vocabulary and the keywords
Substrings == {<<"introduction", "intro">>, <<"proofs", "proof">>}

\* k in t : substring test of keyword k in the lower-cased topic t
KwIn(k, t) ==
  \E n \in 1..Len(t) :
     \/ t[n] = k
     \/ <<t[n], k>> \in Substrings
     \/ k = "getting started" /\ n < Len(t) /\ t[n] = "getting" /\ t[n + 1] = "started"

predict_difficulty(topic) ==
  LET t == LowerTopic(topic) IN
  IF \E k \in hard_kw : KwIn(k, t) THEN "hard"
  ELSE IF \E k \in easy_kw : KwIn(k, t) THEN "easy"
  ELSE IF \E k \in medium_kw : KwIn(k, t) THEN "medium"
  ELSE IF Len(t) >= 2 THEN "medium" ELSE "easy"

-----------------------------------------------------------------------------
(* Topic parser, src/app.py:181-197 *)

base_weights == [easy |-> 1, medium |-> 2, hard |-> 3]

\* .strip().lower() of the text between the parentheses
StripLower(s) ==
  CASE s = " Hard " -> "hard"
    [] s = "EASY" -> "easy"
    [] s = "Medium" -> "medium"
    [] OTHER -> s

NormalizeDiffKeep(diff) == diff

\* if diff not in base_weights: diff = "medium"
NormalizeDiff(diff) == IF diff \in DOMAIN base_weights THEN diff ELSE "medium"

\* base_weights.get(diff, 1.0)
BaseWeightGet(diff) == IF diff \in DOMAIN base_weights THEN base_weights[diff] ELSE 1

\* one pass of the loop over topic_entries
ParsedTask(te, n) ==
  LET diff == IF te.paren
                THEN NormalizeDiff(StripLower(te.declared))
                ELSE IF auto_detect THEN predict_difficulty(te.name) ELSE "medium"
  IN [id |-> n, subject |-> te.subject, topic |-> te.name, diff |-> diff,
      base_w |-> BaseWeightGet(diff), boost |-> 10, hrs |-> 0]

ParseEntry ==
  /\ pc = "parse"
  /\ Len(tasks) < Len(subjects_input)
  /\ tasks' = Append(tasks, ParsedTask(subjects_input[Len(tasks) + 1], Len(tasks) + 1))
  /\ UNCHANGED <<subjects_input, auto_detect, subject_boosts, scheduled_tasks, days,
                 daily_hours, scale, pc, fn, plan, day_alloc, day_index,
                 remaining_in_day, i, remain, flat, day_buckets, day_loads, j,
                 remaining, overloaded_days, autobalance>>

-----------------------------------------------------------------------------
(* Priority boosts, src/app.py:199-216 *)

BoostChoices == {5, 10, 20}     \* slider positions 0.5, 1.0 and 2.0

\* sorted(list({t[0] for t in tasks}))
SubjectsOf(ts) == {ts[k].subject : k \in 1..Len(ts)}

\* "No topics parsed" stops the run; otherwise every task takes its subject's slider value
ApplyBoosts ==
  /\ pc = "parse"
  /\ Len(tasks) = Len(subjects_input)
  /\ IF tasks = <<>>
       THEN /\ pc' = "stopped"
            /\ UNCHANGED <<tasks, subject_boosts>>
       ELSE \E sb \in [SubjectsOf(tasks) -> BoostChoices] :
              /\ subject_boosts' = sb
              /\ tasks' = [k \in 1..Len(tasks) |->
                             [tasks[k] EXCEPT !.boost = sb[tasks[k].subject]]]
              /\ pc' = "allocate"
  /\ UNCHANGED <<subjects_input, auto_detect, scheduled_tasks, days, daily_hours,
                 scale, fn, plan, day_alloc, day_index, remaining_in_day, i,
                 remain, flat, day_buckets, day_loads, j, remaining,
                 overloaded_days, autobalance>>

-----------------------------------------------------------------------------
(* Weight & allocation engine, src/app.py:55-71 *)

\* t[3] * t[4], in tenths
CombinedWeight(t) == t.base_w * t.boost

TotalWeightUnboosted(ts) == SumSeq([k \in 1..Len(ts) |-> ts[k].base_w * 10])

\* total_weight = sum([t[3] * t[4] for t in tasks])
TotalWeight(ts) == SumSeq([k \in 1..Len(ts) |-> CombinedWeight(ts[k])])

\* (t[3] * t[4] / total_weight) * total_available is the exact quotient
\* CombinedWeight(t) * total_available / total_weight.  allocate_hours refines the
\* unit by the factor total_weight (scale and daily_hours are re-expressed in the
\* finer unit, their values in hours unchanged), so the quotient is this integer.
AllocatedHours(t, total_available) == CombinedWeight(t) * total_available

allocate_hours ==
  /\ pc = "allocate"
  /\ LET total_weight == TotalWeight(tasks)
         total_available == days * daily_hours
     IN IF total_weight = 0
          THEN /\ tasks' = [k \in 1..Len(tasks) |-> [tasks[k] EXCEPT !.hrs = 0]]
               /\ UNCHANGED <<scale, daily_hours>>
          ELSE /\ tasks' = [k \in 1..Len(tasks) |->
                              [tasks[k] EXCEPT !.hrs = AllocatedHours(tasks[k], total_available)]]
               /\ scale' = scale * total_weight
               /\ daily_hours' = daily_hours * total_weight
  /\ pc' = "sort"
  /\ UNCHANGED <<subjects_input, auto_detect, subject_boosts, scheduled_tasks, days,
                 fn, plan, day_alloc, day_index, remaining_in_day, i, remain, flat,
                 day_buckets, day_loads, j, remaining, overloaded_days, autobalance>>

-----------------------------------------------------------------------------
(* sorted(..., key, reverse=True) and list.sort(key, reverse=True): stable,   *)
(* descending.  src/app.py:112 and src/app.py:227                             *)

ComesBeforeAscending(a, b) == a <= b

\* an element already placed stays in front of a later one unless its key is smaller
ComesBefore(a, b) == a >= b

\* the positions 1..Len(keys) in sorted order, built by stable insertion
RECURSIVE InsertByKey(_, _, _)
InsertByKey(perm, n, keys) ==
  IF perm = <<>> THEN <<n>>
  ELSE IF ComesBefore(keys[Head(perm)], keys[n])
         THEN <<Head(perm)>> \o InsertByKey(Tail(perm), n, keys)
         ELSE <<n>> \o perm

RECURSIVE SortPerm(_, _)
SortPerm(keys, n) ==
  IF n = 0 THEN <<>> ELSE InsertByKey(SortPerm(keys, n - 1), n, keys)

SortedDesc(s, keys) ==
  LET perm == SortPerm(keys, Len(s)) IN [k \in 1..Len(s) |-> s[perm[k]]]

\* scheduled_tasks = sorted(tasks, key=lambda x: (x[3] * x[4]), reverse=True)
SortTasks ==
  /\ pc = "sort"
  /\ scheduled_tasks' = SortedDesc(tasks, [k \in 1..Len(tasks) |-> CombinedWeight(tasks[k])])
  /\ pc' = "ready"
  /\ UNCHANGED <<subjects_input, auto_detect, tasks, subject_boosts, days, daily_hours,
                 scale, fn, plan, day_alloc, day_index, remaining_in_day, i, remain,
                 flat, day_buckets, day_loads, j, remaining, overloaded_days,
                 autobalance>>

-----------------------------------------------------------------------------
(* Sequential day filler, src/app.py:73-99 *)

Chunk(t, h) == [id |-> t.id, subject |-> t.subject, topic |-> t.topic,
                diff |-> t.diff, hrs |-> h]

ZeroChunks(p) ==
  Cardinality({dk \in UNION {{<<d, k>> : k \in 1..Len(p[d])} : d \in DOMAIN p} :
                  p[dk[1]][dk[2]].hrs = 0})

\* plan.setdefault(d, []).append(c).  Only the first MaxZeroChunks zero-hour
\* chunks are recorded: the loop that appends them never ends.
PlanAppend(p, d, c) ==
  IF c.hrs = 0 /\ ZeroChunks(p) >= MaxZeroChunks THEN p
  ELSE IF d \in DOMAIN p THEN [p EXCEPT ![d] = Append(@, c)]
  ELSE (d :> <<c>>) @@ p

CanTakeAll(rem, left) == rem

CanTakeDay(rem, left) == left

\* can_take = min(remain, remaining_in_day)
CanTake(rem, left) == Min(rem, left)

DayFullStrict(left) == left < Eps

DayFullAlways(left) == TRUE

\* if remaining_in_day <= 1e-6
DayFull(left) == left <= Eps

\* lines 79-82
build_day_alloc_call ==
  /\ pc = "ready"
  /\ fn' = "build_day_alloc"
  /\ plan' = <<>>
  /\ day_alloc' = [d \in 1..days |-> 0]
  /\ day_index' = 0
  /\ remaining_in_day' = daily_hours
  /\ i' = 1
  /\ pc' = "build_for"
  /\ UNCHANGED <<subjects_input, auto_detect, tasks, subject_boosts, scheduled_tasks,
                 days, daily_hours, scale, remain, flat, day_buckets, day_loads, j,
                 remaining, overloaded_days, autobalance>>

\* lines 84-85: the for loop takes the next task
build_day_alloc_for ==
  /\ pc = "build_for"
  /\ i <= Len(scheduled_tasks)
  /\ remain' = scheduled_tasks[i].hrs
  /\ pc' = "build_while"
  /\ UNCHANGED <<subjects_input, auto_detect, tasks, subject_boosts, scheduled_tasks,
                 days, daily_hours, scale, fn, plan, day_alloc, day_index,
                 remaining_in_day, i, flat, day_buckets, day_loads, j, remaining,
                 overloaded_days, autobalance>>

\* lines 86-98: one pass of the while loop
build_day_alloc_while ==
  /\ pc = "build_while"
  /\ remain > Eps
  /\ LET di == IF day_index >= days THEN days - 1 ELSE day_index
         can_take == CanTake(remain, remaining_in_day)
         left == remaining_in_day - can_take
     IN /\ plan' = PlanAppend(plan, di + 1, Chunk(scheduled_tasks[i], can_take))
        /\ day_alloc' = [day_alloc EXCEPT ![di + 1] = @ + can_take]
        /\ remain' = remain - can_take
        /\ IF DayFull(left)
             THEN /\ day_index' = di + 1
                  /\ remaining_in_day' = IF di + 1 < days THEN daily_hours ELSE left
             ELSE /\ day_index' = di
                  /\ remaining_in_day' = left
  /\ UNCHANGED <<subjects_input, auto_detect, tasks, subject_boosts, scheduled_tasks,
                 days, daily_hours, scale, pc, fn, i, flat, day_buckets, day_loads, j,
                 remaining, overloaded_days, autobalance>>

\* line 86: the while condition fails, the for loop moves on
build_day_alloc_next ==
  /\ pc = "build_while"
  /\ ~(remain > Eps)
  /\ i' = i + 1
  /\ pc' = "build_for"
  /\ UNCHANGED <<subjects_input, auto_detect, tasks, subject_boosts, scheduled_tasks,
                 days, daily_hours, scale, fn, plan, day_alloc, day_index,
                 remaining_in_day, remain, flat, day_buckets, day_loads, j, remaining,
                 overloaded_days, autobalance>>

\* line 99: return day_alloc, plan
build_day_alloc_return ==
  /\ pc = "build_for"
  /\ i > Len(scheduled_tasks)
  /\ pc' = "alerts"
  /\ UNCHANGED <<subjects_input, auto_detect, tasks, subject_boosts, scheduled_tasks,
                 days, daily_hours, scale, fn, plan, day_alloc, day_index,
                 remaining_in_day, i, remain, flat, day_buckets, day_loads, j,
                 remaining, overloaded_days, autobalance>>

-----------------------------------------------------------------------------
(* Rebalancer, src/app.py:101-143 *)

\* lines 108-112: flat, sorted by weight descending
Flat(ts) ==
  SortedDesc([k \in 1..Len(ts) |->
                [id |-> ts[k].id, subject |-> ts[k].subject, topic |-> ts[k].topic,
                 diff |-> ts[k].diff, weight |-> CombinedWeight(ts[k]), hrs |-> ts[k].hrs]],
             [k \in 1..Len(ts) |-> CombinedWeight(ts[k])])

TakeAll(space, rem) == rem

\* take = min(space, remaining)
Take(space, rem) == Min(space, rem)

\* if space > 1e-6
HasSpace(space) == space > Eps

\* lines 123-132: for d in range(days), from day d on; item is the flat entry being placed
RECURSIVE ScanDays(_, _, _, _, _, _)
ScanDays(d, loads, buckets, rem, placed, item) ==
  IF d > days
    THEN [loads |-> loads, buckets |-> buckets, remaining |-> rem, placed |-> placed]
    ELSE LET space == daily_hours - loads[d] IN
         IF HasSpace(space)
           THEN LET take == Take(space, rem)
                    loads2 == [loads EXCEPT ![d] = @ + take]
                    buckets2 == [buckets EXCEPT ![d] = Append(@, Chunk(item, take))]
                IN IF rem - take <= Eps
                     THEN [loads |-> loads2, buckets |-> buckets2,
                           remaining |-> rem - take, placed |-> TRUE]
                     ELSE ScanDays(d + 1, loads2, buckets2, rem - take, TRUE, item)
           ELSE ScanDays(d + 1, loads, buckets, rem, placed, item)

\* lines 108-115
rebalance_tasks_call ==
  /\ pc = "ready"
  /\ fn' = "rebalance_tasks"
  /\ flat' = Flat(scheduled_tasks)
  /\ day_buckets' = [d \in 1..days |-> <<>>]
  /\ day_loads' = [d \in 1..days |-> 0]
  /\ j' = 1
  /\ pc' = "rebal_for"
  /\ UNCHANGED <<subjects_input, auto_detect, tasks, subject_boosts, scheduled_tasks,
                 days, daily_hours, scale, plan, day_alloc, day_index,
                 remaining_in_day, i, remain, remaining, overloaded_days, autobalance>>

\* lines 117-119: the for loop takes the next item
rebalance_tasks_for ==
  /\ pc = "rebal_for"
  /\ j <= Len(flat)
  /\ remaining' = flat[j].hrs
  /\ pc' = "rebal_while"
  /\ UNCHANGED <<subjects_input, auto_detect, tasks, subject_boosts, scheduled_tasks,
                 days, daily_hours, scale, fn, plan, day_alloc, day_index,
                 remaining_in_day, i, remain, flat, day_buckets, day_loads, j,
                 overloaded_days, autobalance>>

\* lines 120-137: one pass of the while loop: the scan of the days, then the overflow
rebalance_tasks_while ==
  /\ pc = "rebal_while"
  /\ remaining > Eps
  /\ LET r == ScanDays(1, day_loads, day_buckets, remaining, FALSE, flat[j])
     IN IF ~r.placed
          THEN /\ day_buckets' = [r.buckets EXCEPT ![days] = Append(@, Chunk(flat[j], r.remaining))]
               /\ day_loads' = [r.loads EXCEPT ![days] = @ + r.remaining]
               /\ remaining' = 0
          ELSE /\ day_buckets' = r.buckets
               /\ day_loads' = r.loads
               /\ remaining' = r.remaining
  /\ UNCHANGED <<subjects_input, auto_detect, tasks, subject_boosts, scheduled_tasks,
                 days, daily_hours, scale, pc, fn, plan, day_alloc, day_index,
                 remaining_in_day, i, remain, flat, j, overloaded_days, autobalance>>

\* line 120: the while condition fails, the for loop moves on
rebalance_tasks_next ==
  /\ pc = "rebal_while"
  /\ ~(remaining > Eps)
  /\ j' = j + 1
  /\ pc' = "rebal_for"
  /\ UNCHANGED <<subjects_input, auto_detect, tasks, subject_boosts, scheduled_tasks,
                 days, daily_hours, scale, fn, plan, day_alloc, day_index,
                 remaining_in_day, i, remain, flat, day_buckets, day_loads, remaining,
                 overloaded_days, autobalance>>

\* [(i+1, hrs) for i, hrs in enumerate(day_alloc) if hrs > use_daily_hours + 1e-6]
OverloadedDays(alloc) ==
  SelectSeq([d \in 1..Len(alloc) |-> <<d, alloc[d]>>],
            LAMBDA e : e[2] > daily_hours + Eps)

\* lines 138-143: rebuild the plan dict and return; after an auto-balance the
\* caller takes the result and recomputes overloaded_days (lines 276-278)
rebalance_tasks_return ==
  /\ pc = "rebal_for"
  /\ j > Len(flat)
  /\ plan' = [d \in {e \in 1..days : day_buckets[e] # <<>>} |-> day_buckets[d]]
  /\ day_alloc' = day_loads
  /\ overloaded_days' = IF autobalance THEN OverloadedDays(day_loads) ELSE overloaded_days
  /\ pc' = "done"
  /\ UNCHANGED <<subjects_input, auto_detect, tasks, subject_boosts, scheduled_tasks,
                 days, daily_hours, scale, fn, day_index, remaining_in_day, i, remain,
                 flat, day_buckets, day_loads, j, remaining, autobalance>>

-----------------------------------------------------------------------------
(* Smart alerts, src/app.py:266-285 *)

\* overloaded_days of the plan just built; with overloaded days and the
\* "Auto-balance schedule" button pressed, rebalance_tasks runs on scheduled_tasks
SmartAlerts ==
  /\ pc = "alerts"
  /\ overloaded_days' = OverloadedDays(day_alloc)
  /\ \E button \in BOOLEAN :
       IF overloaded_days' # <<>> /\ button
         THEN /\ autobalance' = TRUE
              /\ fn' = "rebalance_tasks"
              /\ flat' = Flat(scheduled_tasks)
              /\ day_buckets' = [d \in 1..days |-> <<>>]
              /\ day_loads' = [d \in 1..days |-> 0]
              /\ j' = 1
              /\ pc' = "rebal_for"
         ELSE /\ pc' = "done"
              /\ UNCHANGED <<autobalance, fn, flat, day_buckets, day_loads, j>>
  /\ UNCHANGED <<subjects_input, auto_detect, tasks, subject_boosts, scheduled_tasks,
                 days, daily_hours, scale, plan, day_alloc, day_index,
                 remaining_in_day, i, remain, remaining>>

-----------------------------------------------------------------------------
(* Inputs and specifications *)

SeqsUpTo(S, n) == UNION {[1..m -> S] : m \in 0..n}

\* nothing has been packed yet
PackersIdle ==
  /\ fn = ""
  /\ plan = <<>>
  /\ day_alloc = <<>>
  /\ day_index = 0
  /\ remaining_in_day = 0
  /\ i = 0
  /\ remain = 0
  /\ flat = <<>>
  /\ day_buckets = <<>>
  /\ day_loads = <<>>
  /\ j = 0
  /\ remaining = 0
  /\ overloaded_days = <<>>
  /\ autobalance = FALSE

\* "Math: Algebra (hard), Calculus (easy), Linear Algebra" and
\* "Python: Basics, Neural Networks (bogus)", entry by entry
MainEntries ==
  { [subject |-> "Math", name |-> <<"Algebra">>, paren |-> TRUE, declared |-> "hard"],
    [subject |-> "Math", name |-> <<"Calculus">>, paren |-> TRUE, declared |-> "easy"],
    [subject |-> "Math", name |-> <<"Linear", "Algebra">>, paren |-> FALSE, declared |-> ""],
    [subject |-> "Python", name |-> <<"Basics">>, paren |-> FALSE, declared |-> ""],
    [subject |-> "Python", name |-> <<"Neural", "Networks">>, paren |-> TRUE, declared |-> "bogus"] }

\* "Study hours per day": 1.0 and 1.5, in half hours (min_value=1.0, step=0.5)
DailyHoursChoices == {2, 3}

\* the state when "Generate Plan" is pressed, src/app.py:154-181
Init ==
  /\ subjects_input \in SeqsUpTo(MainEntries, MaxEntries)
  /\ auto_detect \in BOOLEAN
  /\ tasks = <<>>
  /\ subject_boosts = <<>>
  /\ scheduled_tasks = <<>>
  /\ days \in 1..MaxUseDays
  /\ daily_hours \in DailyHoursChoices
  /\ scale = 2
  /\ pc = "parse"
  /\ PackersIdle

Next ==
  \/ ParseEntry
  \/ ApplyBoosts
  \/ allocate_hours
  \/ SortTasks
  \/ build_day_alloc_call
  \/ build_day_alloc_for
  \/ build_day_alloc_while
  \/ build_day_alloc_next
  \/ build_day_alloc_return
  \/ SmartAlerts
  \/ rebalance_tasks_call
  \/ rebalance_tasks_for
  \/ rebalance_tasks_while
  \/ rebalance_tasks_next
  \/ rebalance_tasks_return

Spec == Init /\ [][Next]_vars

\* the workflow is one synchronous script run: it keeps executing while a step is left
FairSpec == Spec /\ WF_vars(Next)

\* Direct calls of the packers, on whole hours and on hours of the size of the
\* tolerance (below it, at it and above it).
UnitTaskKinds ==
  { [subject |-> "Math", topic |-> <<"Algebra">>, diff |-> "hard", base_w |-> 3],
    [subject |-> "Python", topic |-> <<"Basics">>, diff |-> "easy", base_w |-> 1] }

UnitTask(kind, n, h) ==
  [id |-> n, subject |-> kind.subject, topic |-> kind.topic, diff |-> kind.diff,
   base_w |-> kind.base_w, boost |-> 10, hrs |-> h]

\* units of one hour (the tolerance is below one unit) and of 1e-6 h
UnitScales == {1, EpsInv}

InitUnitBounded ==
  /\ \E ts \in SeqsUpTo(UnitTaskKinds \X (0..MaxHrs), MaxTasks) :
        scheduled_tasks = [k \in 1..Len(ts) |-> UnitTask(ts[k][1], k, ts[k][2])]
  /\ days \in 1..MaxDays
  /\ daily_hours \in 1..MaxDailyHours
  /\ scale \in UnitScales

\* tasks of 3.6 h, 1.2 h and 1.2 h, days = 2, daily_hours = 3.0, in tenths of an hour
ExampleTasks ==
  << [id |-> 1, subject |-> "Math", topic |-> <<"Algebra">>, diff |-> "hard",
      base_w |-> 3, boost |-> 10, hrs |-> 36],
     [id |-> 2, subject |-> "Math", topic |-> <<"Calculus">>, diff |-> "easy",
      base_w |-> 1, boost |-> 10, hrs |-> 12],
     [id |-> 3, subject |-> "Python", topic |-> <<"Basics">>, diff |-> "easy",
      base_w |-> 1, boost |-> 10, hrs |-> 12] >>

InitUnitExample ==
  /\ scheduled_tasks = ExampleTasks
  /\ days = 2
  /\ daily_hours = 30
  /\ scale = 10

InitUnit ==
  /\ InitUnitBounded \/ InitUnitExample
  /\ subjects_input = <<>>
  /\ auto_detect = TRUE
  /\ tasks = scheduled_tasks
  /\ subject_boosts = <<>>
  /\ pc = "ready"
  /\ PackersIdle

NextUnit ==
  \/ build_day_alloc_call
  \/ build_day_alloc_for
  \/ build_day_alloc_while
  \/ build_day_alloc_next
  \/ build_day_alloc_return
  \/ SmartAlerts
  \/ rebalance_tasks_call
  \/ rebalance_tasks_for
  \/ rebalance_tasks_while
  \/ rebalance_tasks_next
  \/ rebalance_tasks_return

SpecUnit == InitUnit /\ [][NextUnit]_vars

\* a call keeps executing while a step is left
FairSpecUnit == SpecUnit /\ WF_vars(NextUnit)

\* The parser alone, on every kind of topic entry.
Topics ==
  { <<"Algebra">>, <<"Linear", "Algebra">>, <<"Neural", "Networks">>,
    <<"Deep", "Basics">>, <<"Basics">>, <<"Getting", "Started">>, <<"Practice">>,
    <<"Introduction">>, <<"Proofs">>, <<"Calculus">> }

DeclaredTexts == {"hard", "easy", "medium", " Hard ", "EASY", "Medium", "bogus", ""}

AllEntries ==
  {[subject |-> "Math", name |-> t, paren |-> FALSE, declared |-> ""] : t \in Topics}
  \cup {[subject |-> "Math", name |-> t, paren |-> TRUE, declared |-> d] :
          t \in Topics, d \in DeclaredTexts}

InitParse ==
  /\ subjects_input \in SeqsUpTo(AllEntries, MaxParseEntries)
  /\ auto_detect \in BOOLEAN
  /\ tasks = <<>>
  /\ subject_boosts = <<>>
  /\ scheduled_tasks = <<>>
  /\ days = 1
  /\ daily_hours = 2
  /\ scale = 2
  /\ pc = "parse"
  /\ PackersIdle

NextParse == ParseEntry

SpecParse == InitParse /\ [][NextParse]_vars

-----------------------------------------------------------------------------
(* Vocabulary of the properties *)

RECURSIVE ChunksFrom(_, _, _)
ChunksFrom(p, d, last) ==
  IF d > last THEN <<>>
  ELSE (IF d \in DOMAIN p THEN p[d] ELSE <<>>) \o ChunksFrom(p, d + 1, last)

LastKey(p) == IF DOMAIN p = {} THEN 0 ELSE CHOOSE m \in DOMAIN p : \A e \in DOMAIN p : e <= m

\* the chunks of a plan, day by day and in insertion order within a day
ChunkList(p) == ChunksFrom(p, 1, LastKey(p))

TotalHours(ts) == SumSeq([k \in 1..Len(ts) |-> ts[k].hrs])

ChunkHours(p) == LET cl == ChunkList(p) IN SumSeq([k \in 1..Len(cl) |-> cl[k].hrs])

Labels(ts) == {<<ts[k].subject, ts[k].topic>> : k \in 1..Len(ts)}

WithLabel(s, lab) == SelectSeq(s, LAMBDA x : <<x.subject, x.topic>> = lab)

BuildReturned == fn = "build_day_alloc" /\ pc \in {"alerts", "done"}

RebalanceReturned == fn = "rebalance_tasks" /\ pc = "done"

PlanReturned == BuildReturned \/ RebalanceReturned

Overflow == TotalHours(scheduled_tasks) > days * daily_hours

-----------------------------------------------------------------------------
(* C1 *)

\* C1 (never-drop overflow): a call of build_day_alloc whose tasks sum to more
\* than days*daily_hours returns, and the plan it returns holds every hour of
\* every task, the hours beyond days*daily_hours on the last day (each up to the
\* 1e-6 h per task that the packer's tolerance may leave out).
C1_NeverDropOverflow ==
  (fn = "build_day_alloc" /\ Overflow)
    ~> (/\ BuildReturned
        /\ ChunkHours(plan) >= TotalHours(scheduled_tasks) - Len(scheduled_tasks) * Eps
        /\ day_alloc[days] >= daily_hours + (TotalHours(scheduled_tasks) - days * daily_hours)
                                - Len(scheduled_tasks) * Eps)

-----------------------------------------------------------------------------
(* C2 *)

\* C2 as stated (packing conservation, exact): in every returned plan the chunk
\* hours sum to the hours of all tasks, and for each task the chunks carrying its
\* (subject, topic) sum to that task's hours.
C2_ExactConservation ==
  PlanReturned =>
    /\ ChunkHours(plan) = TotalHours(scheduled_tasks)
    /\ \A k \in 1..Len(scheduled_tasks) :
         LET t == scheduled_tasks[k]
             cl == WithLabel(ChunkList(plan), <<t.subject, t.topic>>)
         IN SumSeq([n \in 1..Len(cl) |-> cl[n].hrs]) = t.hrs

\* C2 amended (packing conservation within the tolerance): in every returned plan
\* no hour is duplicated and at most 1e-6 h per task is left out, in total and
\* for the tasks and chunks of each (subject, topic).
C2_PackingConservation ==
  PlanReturned =>
    /\ ChunkHours(plan) <= TotalHours(scheduled_tasks)
    /\ ChunkHours(plan) >= TotalHours(scheduled_tasks) - Len(scheduled_tasks) * Eps
    /\ \A lab \in Labels(scheduled_tasks) :
         LET ts == WithLabel(scheduled_tasks, lab)
             cl == WithLabel(ChunkList(plan), lab)
             placed == SumSeq([n \in 1..Len(cl) |-> cl[n].hrs])
         IN /\ placed <= TotalHours(ts)
            /\ placed >= TotalHours(ts) - Len(ts) * Eps
    /\ \A n \in 1..Len(ChunkList(plan)) :
         <<ChunkList(plan)[n].subject, ChunkList(plan)[n].topic>> \in Labels(scheduled_tasks)

\* a returned plan of several chunks that leaves out part of a task
C2_Witness ==
  /\ PlanReturned
  /\ Len(ChunkList(plan)) >= 2
  /\ ChunkHours(plan) < TotalHours(scheduled_tasks)

-----------------------------------------------------------------------------
(* C3 *)

\* C3 (capacity respect): when the tasks sum to at most days*daily_hours, every
\* entry of the per-day list returned by build_day_alloc or rebalance_tasks is at
\* most daily_hours + 1e-6.
C3_CapacityRespect ==
  (PlanReturned /\ ~Overflow) =>
    \A d \in 1..Len(day_alloc) : day_alloc[d] <= daily_hours + Eps

-----------------------------------------------------------------------------
(* C4 *)

\* C4 (allocation conservation): after allocate_hours the hours of all tasks sum
\* to days*daily_hours, and each task holds the share
\* base_weight*boost / (sum of base_weight*boost) of that budget.
C4_AllocationConservation ==
  pc \in {"sort", "ready", "build_for", "build_while", "alerts", "rebal_for",
          "rebal_while", "done"} =>
    LET total == SumSeq([k \in 1..Len(tasks) |-> tasks[k].base_w * tasks[k].boost])
    IN /\ TotalHours(tasks) = days * daily_hours
       /\ \A k \in 1..Len(tasks) :
            tasks[k].hrs * total = tasks[k].base_w * tasks[k].boost * days * daily_hours

\* allocated: two tasks of different subjects with different boosts
C4_Witness ==
  /\ pc = "sort"
  /\ \E a, b \in 1..Len(tasks) :
       /\ tasks[a].boost # tasks[b].boost
       /\ tasks[a].hrs > tasks[b].hrs
       /\ tasks[b].hrs > 0

-----------------------------------------------------------------------------
(* C5 *)

\* C5 (rebalancer overflow): in rebalance_tasks every day but the last holds at
\* most daily_hours, the last day exceeds daily_hours only if every day is filled
\* to within 1e-6 of daily_hours, and a step that sends hours to the last day as
\* overflow is taken only when no day has more than 1e-6 of space left.
C5_RebalancerOverflow ==
  /\ [](fn = "rebalance_tasks" =>
          /\ \A d \in 1..(days - 1) : day_loads[d] <= daily_hours
          /\ day_loads[days] > daily_hours =>
               \A d \in 1..days : day_loads[d] >= daily_hours - Eps)
  /\ [][(/\ pc = "rebal_while"
         /\ day_loads'[days] > day_loads[days]
         /\ day_loads'[days] > daily_hours)
          => \A d \in 1..days : daily_hours - day_loads[d] <= Eps]_vars

\* rebalance_tasks returned with overflow on the last of several days
C5_Witness ==
  /\ RebalanceReturned
  /\ days >= 2
  /\ day_loads[days] > daily_hours

-----------------------------------------------------------------------------
(* C6 *)

-----------------------------------------------------------------------------
(* C7 *)

\* base_weight * priority_boost of the task a chunk belongs to, from what the chunk carries
ChunkWeight(c) == base_weights[c.diff] * subject_boosts[c.subject]

-----------------------------------------------------------------------------
(* C8 *)

\* C8 (difficulty invariant): every parsed work item has a difficulty among easy,
\* medium, hard, an unrecognized declared difficulty having become medium and a
\* recognized one being kept, and its base weight is 1, 2, 3 respectively.
C8_DifficultyInvariant ==
  \A k \in 1..Len(tasks) :
    LET t == tasks[k]
        te == subjects_input[k]
    IN /\ t.diff \in {"easy", "medium", "hard"}
       /\ t.base_w = (CASE t.diff = "easy" -> 1 [] t.diff = "medium" -> 2
                        [] t.diff = "hard" -> 3 [] OTHER -> 0)
       /\ te.paren =>
            t.diff = IF StripLower(te.declared) \in {"easy", "medium", "hard"}
                       THEN StripLower(te.declared) ELSE "medium"
       /\ (~te.paren /\ ~auto_detect) => t.diff = "medium"

\* parsed: an unrecognized declared difficulty, and a difficulty found by the classifier
C8_Witness ==
  \E k \in 1..Len(tasks) :
    /\ subjects_input[k].paren
    /\ subjects_input[k].declared = "bogus"
    /\ tasks[k].diff = "medium"
    /\ tasks[k].base_w = 2

-----------------------------------------------------------------------------
(* C9 *)

DaysOf(p, n) == {d \in DOMAIN p : \E k \in 1..Len(p[d]) : p[d][k].id = n}

\* C9 (sequential fill): while build_day_alloc runs and when it has returned, a
\* day d > 1 holds a chunk only if every earlier day holds chunks and is filled
\* to within 1e-6 of daily_hours, the days a task is spread over are contiguous,
\* and tasks of 3.6 h, 1.2 h, 1.2 h with days = 2 and daily_hours = 3 come out as
\* Day 1 = [3.0], Day 2 = [0.6, 1.2, 1.2].
C9_SequentialFill ==
  fn = "build_day_alloc" =>
    /\ \A d \in DOMAIN plan : \A e \in 1..(d - 1) :
         /\ e \in DOMAIN plan
         /\ day_alloc[e] >= daily_hours - Eps
         /\ day_alloc[e] <= daily_hours
    /\ \A k \in 1..Len(scheduled_tasks) :
         \A d, e \in DaysOf(plan, k) : \A m \in d..e : m \in DaysOf(plan, k)
    /\ (BuildReturned /\ scheduled_tasks = ExampleTasks /\ scale = 10) =>
         /\ DOMAIN plan = {1, 2}
         /\ [n \in 1..Len(plan[1]) |-> plan[1][n].hrs] = <<30>>
         /\ [n \in 1..Len(plan[2]) |-> plan[2][n].hrs] = <<6, 12, 12>>
         /\ [n \in 1..Len(plan[2]) |-> plan[2][n].id] = <<1, 2, 3>>

\* the example has been packed
C9_Witness ==
  /\ BuildReturned
  /\ scheduled_tasks = ExampleTasks
  /\ scale = 10
  /\ DOMAIN plan = {1, 2}

-----------------------------------------------------------------------------
(* C10 *)

====
